---- MODULE Spec2Model ----
(***************************************************************************)
(* Model of muuri's per-item visibility state machine (ItemVisibility.ts)  *)
(* and of the debounce adapter (utils/debounce.ts).                        *)
(*                                                                         *)
(* One item of one grid is modelled.  The emitter, the ticker and the      *)
(* animator are collaborators whose code is outside the modelled sources;  *)
(* they are modelled from their documented contracts.  Completion          *)
(* callbacks are observers: an invocation appends an entry to log.         *)
(* A frame runs its READ phase and then its WRITE phase; public calls are   *)
(* made between frames and, by other callbacks of the ticker, before,      *)
(* between and after the item's own callbacks of a frame.                  *)
(***************************************************************************)
EXTENDS Integers, Sequences, FiniteSets, TLC

VARIABLES
  settings,      \* grid settings read by ItemVisibility
  isHidden,      \* ItemVisibility._isHidden
  isHiding,      \* ItemVisibility._isHiding
  isShowing,     \* ItemVisibility._isShowing
  isDestroyed,   \* ItemVisibility._isDestroyed
  queue,         \* listeners stored by the emitter under this._queue
  readTick,      \* pending READ registration keyed by the item
  writeTick,     \* pending WRITE registration keyed by the item
  currentStyles, \* closure variable of the pending read/write pair
  animation,     \* animator.animation and the finish handler wired to it
  needsRefresh,  \* grid._itemVisibilityNeedsDimensionRefresh
  display,       \* item.element.style.display
  tickPhase,     \* ticker: idle, or the phase of the frame that is running
  readNow,       \* ticker: the pending READ is among the callbacks the
                 \* running READ phase calls
  writeNow,      \* ticker: the pending WRITE is among the callbacks the
                 \* running WRITE phase calls
  readRan,       \* history: the READ callback of the pending pair was called
                 \* in the frame that is running
  stopped,       \* history: stop() halted the transition in flight and no
                 \* transition has begun since
  pairCurrent,   \* history: what is pending under the item's key was
                 \* registered by the request in flight
  log,           \* every callback invocation so far, in order
  ev,            \* collaborator calls made by the last operation
  last,          \* the last operation, its arguments and the state before it
  calls,         \* number of public calls made so far
  dDuration,     \* debounce: durationMs
  dTimer,        \* debounce: timer
  dLastTime,     \* debounce: lastTime
  dCanceled,     \* debounce: isCanceled
  dTick,         \* debounce: tick !== undefined
  dRegistered,   \* debounce: a READ callback keyed by id is pending
  dNow,          \* debounce: current time of the host clock
  dFrameTime,    \* debounce: timestamp of the last frame of the ticker
  dInvokedAt,    \* debounce: time of the most recent non-cancel invocation
  dRuns,         \* debounce: executions of fn so far
  dLast,         \* debounce: the last step taken
  ticker,        \* the frame scheduler: pending lanes, running phase, trace
  emitter,       \* the callback queue: listeners per key, burst trace
  grid           \* a grid with several items: their visibility states, the
                 \* shared refresh flag and the order of their registrations

visVars == <<settings, isHidden, isHiding, isShowing, isDestroyed, queue,
             readTick, writeTick, currentStyles, animation, needsRefresh,
             display, tickPhase, readNow, writeNow, readRan, pairCurrent, stopped,
             log, ev,
             last, calls>>

debVars == <<dDuration, dTimer, dLastTime, dCanceled, dTick, dRegistered,
             dNow, dFrameTime, dInvokedAt, dRuns, dLast>>

libVars == <<ticker, emitter, grid>>

vars == <<visVars, debVars, libVars>>

\* Bound: number of public calls (show, hide, stop, destroy) in one behaviour.
MaxCalls == 4

\* onFinish is not a function: callback is null.  A callback is named after
\* the call that passes it; react is the call it makes on the item when it is
\* invoked, arg the boolean argument of that call (instant, or
\* processCallbackQueue) and pass whether that call is given an onFinish of
\* its own.
NoCb == [n |-> 0, op |-> "none", react |-> "none", arg |-> FALSE,
         pass |-> FALSE]

\* The onFinish that the body of callback cb passes to the call it makes: a
\* function of its own that calls nothing.
Inner(cb) ==
  IF cb.pass
  THEN [n |-> 0 - cb.n, op |-> cb.react, react |-> "none", arg |-> FALSE,
        pass |-> FALSE]
  ELSE NoCb

\* The grid settings ItemVisibility reads: whether each target style set is
\* defined, the two durations (zero, or a positive number of milliseconds)
\* and the windowing flag.
Settings ==
  [visibleStyles : BOOLEAN, hiddenStyles : BOOLEAN,
   showDuration : {0, 300}, hideDuration : {0, 300},
   animationWindowing : BOOLEAN]

(***************************************************************************)
(* The program state as one record, so that the methods compose.           *)
(***************************************************************************)
State ==
  [settings |-> settings, isHidden |-> isHidden, isHiding |-> isHiding,
   isShowing |-> isShowing, isDestroyed |-> isDestroyed, queue |-> queue,
   readTick |-> readTick, writeTick |-> writeTick,
   currentStyles |-> currentStyles, animation |-> animation,
   needsRefresh |-> needsRefresh, display |-> display, phase |-> tickPhase,
   readNow |-> readNow, writeNow |-> writeNow, readRan |-> readRan,
   pairCurrent |-> pairCurrent, stopped |-> stopped, log |-> log, ev |-> {}]

Commit(r) ==
  /\ isHidden' = r.isHidden
  /\ isHiding' = r.isHiding
  /\ isShowing' = r.isShowing
  /\ isDestroyed' = r.isDestroyed
  /\ queue' = r.queue
  /\ readTick' = r.readTick
  /\ writeTick' = r.writeTick
  /\ currentStyles' = r.currentStyles
  /\ animation' = r.animation
  /\ needsRefresh' = r.needsRefresh
  /\ display' = r.display
  /\ tickPhase' = r.phase
  /\ readNow' = r.readNow
  /\ writeNow' = r.writeNow
  /\ readRan' = r.readRan
  /\ pairCurrent' = r.pairCurrent
  /\ stopped' = r.stopped
  /\ log' = r.log
  /\ ev' = r.ev
  /\ settings' = settings

\* What a callback observes when it is invoked with (interrupted, item).
Entry(s, cb, interrupted) ==
  [cb |-> cb, interrupted |-> interrupted, isHidden |-> s.isHidden,
   isHiding |-> s.isHiding, isShowing |-> s.isShowing]

RECURSIVE show(_, _, _)
RECURSIVE hide(_, _, _)
RECURSIVE stop(_, _)

\* The body of an onFinish callback: it may call back into the item.
react(s, cb) ==
  IF cb.react = "show" THEN show(s, cb.arg, Inner(cb))
  ELSE IF cb.react = "hide" THEN hide(s, cb.arg, Inner(cb))
  ELSE IF cb.react = "stop" THEN stop(s, cb.arg)
  ELSE s

\* callback && callback(false, item)
invoke(s, cb, interrupted) ==
  IF cb = NoCb THEN s
  ELSE react([s EXCEPT !.log = Append(@, Entry(s, cb, interrupted))], cb)

\* The listeners taken out of the queue are called one after the other.
RECURSIVE invokeAll(_, _, _)
invokeAll(s, ls, interrupted) ==
  IF ls = <<>> THEN s
  ELSE invokeAll(invoke(s, Head(ls), interrupted), Tail(ls), interrupted)

\* callback && item._emitter.on(this._queue, callback)
emitterOn(s, cb) ==
  IF cb = NoCb THEN s ELSE [s EXCEPT !.queue = Append(@, cb)]

\* item._emitter.burst(this._queue, interrupted, item): the queue is cleared,
\* then every listener that was stored is invoked in registration order.
burst(s, interrupted) ==
  invokeAll([s EXCEPT !.queue = <<>>, !.ev = @ \cup {"burst"}],
            s.queue, interrupted)

\* item._emitter.clear(this._queue)
emitterClear(s) == [s EXCEPT !.queue = <<>>]

\* cancelVisibilityTick(item.id)
cancelVisibilityTick(s) ==
  [s EXCEPT !.readTick = "none", !.writeTick = "none", !.readNow = FALSE,
            !.writeNow = FALSE, !.readRan = FALSE, !.pairCurrent = FALSE,
            !.ev = @ \cup {"cancel"}]

\* addVisibilityTick(item.id, read, write): a fresh closure pair replaces
\* whatever was pending for the item.  Neither callback is among those the
\* running phase calls.
addVisibilityTick(s, dir) ==
  [s EXCEPT !.readTick = dir, !.writeTick = dir, !.currentStyles = FALSE,
            !.readNow = FALSE, !.writeNow = FALSE, !.readRan = FALSE,
            !.pairCurrent = TRUE,
            !.ev = @ \cup {"register"}]

\* animator.stop()
animatorStop(s) ==
  [s EXCEPT !.animation = "none", !.ev = @ \cup {"stop"}]

\* animator.start(currentStyles, targetStyles, {onFinish})
animatorStart(s, dir) ==
  [s EXCEPT !.animation = dir, !.ev = @ \cup {"start"}]

\* animator.destroy()
animatorDestroy(s) == [s EXCEPT !.animation = "none"]

\* _finishShow() that bursts the queue before it clears _isShowing.
finishShowBurstsFirst(s) ==
  IF s.isHidden THEN s
  ELSE LET b == burst([s EXCEPT !.ev = @ \cup {"finish"}], FALSE)
       IN [b EXCEPT !.isShowing = FALSE]

\* _finishShow()
finishShow(s) ==
  IF s.isHidden THEN s
  ELSE burst([s EXCEPT !.isShowing = FALSE, !.ev = @ \cup {"finish"}], FALSE)

\* _finishHide()
finishHide(s) ==
  IF ~s.isHidden THEN s
  ELSE burst([s EXCEPT !.isHiding = FALSE, !.display = "none",
                       !.ev = @ \cup {"finish"}], FALSE)

\* onFinish && onFinish(), with onFinish bound to _finishShow or _finishHide
onFinish(s, toVisible) ==
  LET t == [s EXCEPT !.ev = @ \cup {"onFinish"}]
  IN IF toVisible THEN finishShow(t) ELSE finishHide(t)

Dir(toVisible) == IF toVisible THEN "show" ELSE "hide"

\* _startAnimation() that takes only the configured duration into account and
\* overlooks the instant argument.
startAnimationIgnoresInstant(s, toVisible, instant) ==
  LET targetStyles == IF toVisible THEN s.settings.visibleStyles
                      ELSE s.settings.hiddenStyles
      duration == IF toVisible THEN s.settings.showDuration
                  ELSE s.settings.hideDuration
      isInstant == duration <= 0
  IN IF s.isDestroyed THEN s
     ELSE IF ~targetStyles THEN onFinish(animatorStop(s), toVisible)
     ELSE LET c == cancelVisibilityTick(s)
          IN IF isInstant THEN onFinish(animatorStop(c), toVisible)
             ELSE LET n == IF c.animation # "none"
                           THEN [c EXCEPT !.animation = "nulled"] ELSE c
                  IN addVisibilityTick([n EXCEPT !.needsRefresh = TRUE],
                                       Dir(toVisible))

\* _startAnimation() that starts a non-instant animation at once instead of
\* deferring it to the next frame.
startAnimationStartsInline(s, toVisible, instant) ==
  LET targetStyles == IF toVisible THEN s.settings.visibleStyles
                      ELSE s.settings.hiddenStyles
      duration == IF toVisible THEN s.settings.showDuration
                  ELSE s.settings.hideDuration
      isInstant == instant \/ duration <= 0
  IN IF s.isDestroyed THEN s
     ELSE IF ~targetStyles THEN onFinish(animatorStop(s), toVisible)
     ELSE LET c == cancelVisibilityTick(s)
          IN IF isInstant THEN onFinish(animatorStop(c), toVisible)
             ELSE animatorStart([c EXCEPT !.needsRefresh = TRUE],
                                Dir(toVisible))

\* _startAnimation(toVisible, instant, onFinish)
startAnimation(s, toVisible, instant) ==
  LET targetStyles == IF toVisible THEN s.settings.visibleStyles
                      ELSE s.settings.hiddenStyles
      duration == IF toVisible THEN s.settings.showDuration
                  ELSE s.settings.hideDuration
      isInstant == instant \/ duration <= 0
  IN IF s.isDestroyed THEN s
     ELSE IF ~targetStyles THEN onFinish(animatorStop(s), toVisible)
     ELSE LET c == cancelVisibilityTick(s)
          IN IF isInstant THEN onFinish(animatorStop(c), toVisible)
             ELSE LET n == IF c.animation # "none"
                           THEN [c EXCEPT !.animation = "nulled"] ELSE c
                  IN addVisibilityTick([n EXCEPT !.needsRefresh = TRUE],
                                       Dir(toVisible))

\* show() that bursts the queue as interrupted even when already showing.
showAlwaysBursts(s, instant, cb) ==
  IF s.isDestroyed THEN s
  ELSE IF ~s.isShowing /\ ~s.isHidden THEN invoke(s, cb, FALSE)
  ELSE IF s.isShowing /\ ~instant THEN emitterOn(s, cb)
  ELSE LET t == burst(s, TRUE)
           b == IF ~s.isShowing /\ ~t.isHiding
                THEN [t EXCEPT !.display = ""] ELSE t
           q == emitterOn(b, cb)
           f == [q EXCEPT !.isShowing = TRUE, !.isHiding = FALSE,
                          !.isHidden = FALSE, !.pairCurrent = FALSE,
                         !.stopped = FALSE, !.ev = @ \cup {"begin"}]
       IN startAnimation(f, TRUE, instant)

\* show() that queues the callback of a no-op request instead of calling it.
showNoopQueues(s, instant, cb) ==
  IF s.isDestroyed THEN s
  ELSE IF ~s.isShowing /\ ~s.isHidden THEN emitterOn(s, cb)
  ELSE IF s.isShowing /\ ~instant THEN emitterOn(s, cb)
  ELSE LET b == IF ~s.isShowing
                THEN LET t == burst(s, TRUE)
                     IN IF ~t.isHiding THEN [t EXCEPT !.display = ""] ELSE t
                ELSE s
           q == emitterOn(b, cb)
           f == [q EXCEPT !.isShowing = TRUE, !.isHiding = FALSE,
                          !.isHidden = FALSE, !.pairCurrent = FALSE,
                         !.stopped = FALSE, !.ev = @ \cup {"begin"}]
       IN startAnimation(f, TRUE, instant)

\* show() that calls the callback of a no-op request and also leaves it in
\* the queue.
showNoopAlsoQueues(s, instant, cb) ==
  IF s.isDestroyed THEN s
  ELSE IF ~s.isShowing /\ ~s.isHidden THEN emitterOn(invoke(s, cb, FALSE), cb)
  ELSE IF s.isShowing /\ ~instant THEN emitterOn(s, cb)
  ELSE LET b == IF ~s.isShowing
                THEN LET t == burst(s, TRUE)
                     IN IF ~t.isHiding THEN [t EXCEPT !.display = ""] ELSE t
                ELSE s
           q == emitterOn(b, cb)
           f == [q EXCEPT !.isShowing = TRUE, !.isHiding = FALSE,
                          !.isHidden = FALSE, !.pairCurrent = FALSE,
                         !.stopped = FALSE, !.ev = @ \cup {"begin"}]
       IN startAnimation(f, TRUE, instant)

\* show() without the coalescing branch: a repeated request restarts the
\* animation sequence.
showNeverCoalesces(s, instant, cb) ==
  IF s.isDestroyed THEN s
  ELSE IF ~s.isShowing /\ ~s.isHidden THEN invoke(s, cb, FALSE)
  ELSE LET b == IF ~s.isShowing
                THEN LET t == burst(s, TRUE)
                     IN IF ~t.isHiding THEN [t EXCEPT !.display = ""] ELSE t
                ELSE s
           q == emitterOn(b, cb)
           f == [q EXCEPT !.isShowing = TRUE, !.isHiding = FALSE,
                          !.isHidden = FALSE, !.pairCurrent = FALSE,
                         !.stopped = FALSE, !.ev = @ \cup {"begin"}]
       IN startAnimation(f, TRUE, instant)

\* show() without the _isDestroyed guard.
showIgnoresDestroyed(s, instant, cb) ==
  IF ~s.isShowing /\ ~s.isHidden THEN invoke(s, cb, FALSE)
  ELSE IF s.isShowing /\ ~instant THEN emitterOn(s, cb)
  ELSE LET b == IF ~s.isShowing
                THEN LET t == burst(s, TRUE)
                     IN IF ~t.isHiding THEN [t EXCEPT !.display = ""] ELSE t
                ELSE s
           q == emitterOn(b, cb)
           f == [q EXCEPT !.isShowing = TRUE, !.isHiding = FALSE,
                          !.isHidden = FALSE, !.pairCurrent = FALSE,
                         !.stopped = FALSE, !.ev = @ \cup {"begin"}]
       IN startAnimation(f, TRUE, instant)

\* show() that leaves the display style of the element alone.
showKeepsDisplay(s, instant, cb) ==
  IF s.isDestroyed THEN s
  ELSE IF ~s.isShowing /\ ~s.isHidden THEN invoke(s, cb, FALSE)
  ELSE IF s.isShowing /\ ~instant THEN emitterOn(s, cb)
  ELSE LET b == IF ~s.isShowing THEN burst(s, TRUE) ELSE s
           q == emitterOn(b, cb)
           f == [q EXCEPT !.isShowing = TRUE, !.isHiding = FALSE,
                          !.isHidden = FALSE, !.pairCurrent = FALSE,
                         !.stopped = FALSE, !.ev = @ \cup {"begin"}]
       IN startAnimation(f, TRUE, instant)

\* show(instant, onFinish)
show(s, instant, cb) ==
  IF s.isDestroyed THEN s
  ELSE IF ~s.isShowing /\ ~s.isHidden THEN invoke(s, cb, FALSE)
  ELSE IF s.isShowing /\ ~instant THEN emitterOn(s, cb)
  ELSE LET b == IF ~s.isShowing
                THEN LET t == burst(s, TRUE)
                     IN IF ~t.isHiding THEN [t EXCEPT !.display = ""] ELSE t
                ELSE s
           q == emitterOn(b, cb)
           f == [q EXCEPT !.isShowing = TRUE, !.isHiding = FALSE,
                          !.isHidden = FALSE, !.pairCurrent = FALSE,
                         !.stopped = FALSE, !.ev = @ \cup {"begin"}]
       IN startAnimation(f, TRUE, instant)

\* hide() that marks the item hidden only when the transition finishes.
hideDefersHidden(s, instant, cb) ==
  IF s.isDestroyed THEN s
  ELSE IF ~s.isHiding /\ s.isHidden THEN invoke(s, cb, FALSE)
  ELSE IF s.isHiding /\ ~instant THEN emitterOn(s, cb)
  ELSE LET b == IF ~s.isHiding THEN burst(s, TRUE) ELSE s
           q == emitterOn(b, cb)
           f == [q EXCEPT !.isHiding = TRUE, !.isShowing = FALSE,
                          !.pairCurrent = FALSE,
                         !.stopped = FALSE, !.ev = @ \cup {"begin"}]
           r == startAnimation(f, FALSE, instant)
       IN IF r.isHiding THEN r ELSE [r EXCEPT !.isHidden = TRUE]

\* hide() that forgets to settle the waiters of the show it preempts.
hideWithoutBurst(s, instant, cb) ==
  IF s.isDestroyed THEN s
  ELSE IF ~s.isHiding /\ s.isHidden THEN invoke(s, cb, FALSE)
  ELSE IF s.isHiding /\ ~instant THEN emitterOn(s, cb)
  ELSE LET q == emitterOn(s, cb)
           f == [q EXCEPT !.isHidden = TRUE, !.isHiding = TRUE,
                          !.isShowing = FALSE, !.pairCurrent = FALSE,
                         !.stopped = FALSE, !.ev = @ \cup {"begin"}]
       IN startAnimation(f, FALSE, instant)

\* hide() that forgets to clear _isShowing.
hideKeepsShowing(s, instant, cb) ==
  IF s.isDestroyed THEN s
  ELSE IF ~s.isHiding /\ s.isHidden THEN invoke(s, cb, FALSE)
  ELSE IF s.isHiding /\ ~instant THEN emitterOn(s, cb)
  ELSE LET b == IF ~s.isHiding THEN burst(s, TRUE) ELSE s
           q == emitterOn(b, cb)
           f == [q EXCEPT !.isHidden = TRUE, !.isHiding = TRUE,
                          !.pairCurrent = FALSE,
                         !.stopped = FALSE, !.ev = @ \cup {"begin"}]
       IN startAnimation(f, FALSE, instant)

\* hide(instant, onFinish)
hide(s, instant, cb) ==
  IF s.isDestroyed THEN s
  ELSE IF ~s.isHiding /\ s.isHidden THEN invoke(s, cb, FALSE)
  ELSE IF s.isHiding /\ ~instant THEN emitterOn(s, cb)
  ELSE LET b == IF ~s.isHiding THEN burst(s, TRUE) ELSE s
           q == emitterOn(b, cb)
           f == [q EXCEPT !.isHidden = TRUE, !.isHiding = TRUE,
                          !.isShowing = FALSE, !.pairCurrent = FALSE,
                         !.stopped = FALSE, !.ev = @ \cup {"begin"}]
       IN startAnimation(f, FALSE, instant)

\* stop() that bursts the queue whatever processCallbackQueue is.
stopAlwaysBursts(s, processCallbackQueue) ==
  IF s.isDestroyed THEN s
  ELSE IF ~s.isHiding /\ ~s.isShowing THEN s
  ELSE burst([animatorStop(cancelVisibilityTick(s)) EXCEPT !.stopped = TRUE],
             TRUE)

\* stop(processCallbackQueue)
stop(s, processCallbackQueue) ==
  IF s.isDestroyed THEN s
  ELSE IF ~s.isHiding /\ ~s.isShowing THEN s
  ELSE LET a == [animatorStop(cancelVisibilityTick(s))
                   EXCEPT !.stopped = TRUE]
       IN IF processCallbackQueue THEN burst(a, TRUE) ELSE a

\* destroy() that stops without processing the callback queue.
destroyStopsSilently(s) ==
  IF s.isDestroyed THEN s
  ELSE LET a == animatorDestroy(emitterClear(stop(s, FALSE)))
       IN [a EXCEPT !.display = "", !.isHiding = FALSE, !.isShowing = FALSE,
                    !.isDestroyed = TRUE, !.isHidden = TRUE,
                    !.pairCurrent = FALSE, !.stopped = FALSE]

\* destroy()
destroy(s) ==
  IF s.isDestroyed THEN s
  ELSE LET a == animatorDestroy(emitterClear(stop(s, TRUE)))
       IN [a EXCEPT !.display = "", !.isHiding = FALSE, !.isShowing = FALSE,
                    !.isDestroyed = TRUE, !.isHidden = TRUE,
                    !.pairCurrent = FALSE, !.stopped = FALSE]

\* A READ callback that refreshes the grid's measurements and leaves the
\* flag that asks for the refresh set.
readCallbackKeepsFlag(s, toVisible) ==
  IF s.isDestroyed \/ (IF toVisible THEN ~s.isShowing ELSE ~s.isHiding) THEN s
  ELSE LET c == [s EXCEPT !.currentStyles = TRUE, !.ev = @ \cup {"read"}]
       IN IF c.settings.animationWindowing /\ c.needsRefresh
          THEN [c EXCEPT !.ev = @ \cup {"refresh"}]
          ELSE c

\* The READ callback registered by _startAnimation.
readCallback(s, toVisible) ==
  IF s.isDestroyed \/ (IF toVisible THEN ~s.isShowing ELSE ~s.isHiding) THEN s
  ELSE LET c == [s EXCEPT !.currentStyles = TRUE, !.ev = @ \cup {"read"}]
       IN IF c.settings.animationWindowing /\ c.needsRefresh
          THEN [c EXCEPT !.needsRefresh = FALSE, !.ev = @ \cup {"refresh"}]
          ELSE c

\* The WRITE callback registered by _startAnimation.  outside is the outcome
\* of the two viewport tests (the item is judged outside the viewport).
writeCallback(s, toVisible, outside) ==
  IF s.isDestroyed \/ (IF toVisible THEN ~s.isShowing ELSE ~s.isHiding) THEN s
  ELSE IF s.settings.animationWindowing /\ outside
       THEN onFinish(animatorStop(s), toVisible)
  ELSE IF s.currentStyles THEN animatorStart(s, Dir(toVisible))
  ELSE s

\* Nothing is pending under the item's key any more: the pair of the
\* request in flight has been used up.
pairDone(s) ==
  IF s.readTick = "none" /\ s.writeTick = "none"
  THEN [s EXCEPT !.pairCurrent = FALSE]
  ELSE s

\* The ticker begins a frame: the READ callbacks pending now are the ones
\* its READ phase calls.
frameStart(s) ==
  [s EXCEPT !.phase = "read", !.readNow = (s.readTick # "none"),
            !.readRan = FALSE]

\* The READ phase calls the item's pending READ callback; the registration
\* is one-shot.
readPhase(s) ==
  IF s.readTick = "none" THEN s
  ELSE pairDone(readCallback([s EXCEPT !.readTick = "none",
                                       !.readNow = FALSE, !.readRan = TRUE],
                             s.readTick = "show"))

\* The READ phase is over: the WRITE callbacks pending at this point are the
\* ones the WRITE phase calls.
readDone(s) ==
  [s EXCEPT !.phase = "write", !.writeNow = (s.writeTick # "none")]

\* The WRITE phase calls the item's pending WRITE callback; the registration
\* is one-shot.
writePhase(s, outside) ==
  IF s.writeTick = "none" THEN s
  ELSE pairDone(writeCallback([s EXCEPT !.writeTick = "none",
                                        !.writeNow = FALSE],
                              s.writeTick = "show", outside))

\* The WRITE phase is over and with it the frame.
frameDone(s) == [s EXCEPT !.phase = "idle", !.readRan = FALSE]

\* The animation runs to its end: the animator drops it and calls the
\* finish handler that was wired to it.
animationFinished(s) ==
  onFinish([s EXCEPT !.animation = "none"], s.animation = "show")

(***************************************************************************)
(* Actions                                                                 *)
(***************************************************************************)
Pre ==
  [isHidden |-> isHidden, isHiding |-> isHiding, isShowing |-> isShowing,
   isDestroyed |-> isDestroyed, queue |-> queue, readTick |-> readTick,
   writeTick |-> writeTick, animation |-> animation, display |-> display,
   needsRefresh |-> needsRefresh, pairCurrent |-> pairCurrent,
   stopped |-> stopped, currentStyles |-> currentStyles, phase |-> tickPhase,
   readRan |-> readRan,
   logLen |-> Len(log)]

\* call is the most recent show or hide request.
Op(op, instant, cb, flag) ==
  [op |-> op, instant |-> instant, cb |-> cb, flag |-> flag,
   call |-> IF op \in {"show", "hide"} THEN op ELSE last.call, pre |-> Pre]

\* Item.isVisible()
isVisible(s) == ~s.isHidden

\* The onFinish argument of a call: none, or a function of its own, named
\* after the call that passes it.
Callbacks(op) ==
  {NoCb, [n |-> calls + 1, op |-> op, react |-> "none", arg |-> FALSE,
          pass |-> FALSE]}

\* The same, with callbacks that call show(), hide() or stop() on the item,
\* with either value of the boolean argument and, for show() and hide(),
\* with or without an onFinish.
Reactions == {"none", "show", "hide", "stop"}

ReactingCallbacks(op) ==
  {NoCb} \cup
  {c \in [n : {calls + 1}, op : {op}, react : Reactions, arg : BOOLEAN,
          pass : BOOLEAN] :
     /\ c.react = "none" => ~c.arg /\ ~c.pass
     /\ c.react = "stop" => ~c.pass}

\* The frame scheduler with nothing registered and no frame run.
TickerInit ==
  [reads |-> <<>>, writes |-> <<>>, phase |-> "idle", run |-> <<>>,
   frame |-> 0, next |-> 1, trace |-> <<>>, replaced |-> {}, cancelled |-> {}]

\* The callback queue with no listener under any key.
EmitterInit ==
  [listeners |-> [k \in {} |-> <<>>], next |-> 1, bursts |-> 0,
   trace |-> <<>>, last |-> [op |-> "init"]]

\* The scheduler and the queue are not exercised on their own while the item
\* or the debounce adapter is.
\* The items of a grid.
Items == {1, 2}

\* new ItemVisibility(item) for an item that is active or not.
ItemInit(st, isActive) ==
  [settings |-> st, isHidden |-> ~isActive, isHiding |-> FALSE,
   isShowing |-> FALSE, isDestroyed |-> FALSE, queue |-> <<>>,
   readTick |-> "none", writeTick |-> "none", currentStyles |-> FALSE,
   animation |-> "none", needsRefresh |-> FALSE,
   display |-> IF isActive THEN "" ELSE "none", phase |-> "idle",
   readNow |-> FALSE, writeNow |-> FALSE, readRan |-> FALSE,
   pairCurrent |-> FALSE, stopped |-> FALSE, log |-> <<>>, ev |-> {}]

\* A grid whose items were just constructed: nothing is registered with the
\* ticker and no frame has run.  reads and writes are the ticker's two lanes
\* (the items whose callback is registered, in registration order), run is
\* what is left to call of the phase that is running; ran, refreshed and
\* started are the history of the frame: the items whose READ callback ran,
\* those whose READ callback refreshed the measurements, and whether a
\* show() or hide() called during the READ phase began a transition.
GridInit(st, active) ==
  [items |-> [i \in Items |-> ItemInit(st, active[i])],
   needsRefresh |-> FALSE, phase |-> "idle", reads |-> <<>>,
   writes |-> <<>>, run |-> <<>>, ran |-> <<>>, refreshed |-> <<>>,
   started |-> FALSE, calls |-> 0, op |-> "init"]

GridIdle ==
  GridInit([visibleStyles |-> TRUE, hiddenStyles |-> TRUE,
            showDuration |-> 300, hideDuration |-> 300,
            animationWindowing |-> FALSE], [i \in Items |-> TRUE])

LibIdle == ticker = TickerInit /\ emitter = EmitterInit /\ grid = GridIdle

\* The debounce adapter is not in use while the item is exercised.
DebIdle ==
  /\ dDuration = 0 /\ dTimer = 0 /\ dLastTime = 0 /\ dCanceled = FALSE
  /\ dTick = TRUE /\ dRegistered = FALSE /\ dNow = 1 /\ dFrameTime = 0
  /\ dInvokedAt = 0 /\ dRuns = 0
  /\ dLast = [op |-> "init", cancel |-> FALSE, ran |-> FALSE, runs |-> 0,
              cancelled |-> FALSE, armedAtCancel |-> FALSE, since |-> 0,
              coalesced |-> 0]

\* new ItemVisibility(item)
VisInit ==
  /\ settings \in Settings
  /\ \E isActive \in BOOLEAN :
       /\ isHidden = ~isActive
       /\ display = IF isActive THEN "" ELSE "none"
  /\ isHiding = FALSE
  /\ isShowing = FALSE
  /\ isDestroyed = FALSE
  /\ queue = <<>>
  /\ readTick = "none"
  /\ writeTick = "none"
  /\ currentStyles = FALSE
  /\ animation = "none"
  /\ tickPhase = "idle"
  /\ readNow = FALSE
  /\ writeNow = FALSE
  /\ readRan = FALSE
  /\ pairCurrent = FALSE
  /\ stopped = FALSE
  /\ needsRefresh = FALSE
  /\ log = <<>>
  /\ ev = {}
  /\ last = [op |-> "init", instant |-> FALSE, cb |-> NoCb, flag |-> FALSE,
             call |-> "none",
             pre |-> [isHidden |-> FALSE, isHiding |-> FALSE,
                      isShowing |-> FALSE, isDestroyed |-> FALSE,
                      queue |-> <<>>, readTick |-> "none",
                      writeTick |-> "none", animation |-> "none",
                      display |-> "", needsRefresh |-> FALSE,
                      pairCurrent |-> FALSE, stopped |-> FALSE,
                      currentStyles |-> FALSE, phase |-> "idle",
                      readRan |-> FALSE,
                      logLen |-> 0]]
  /\ calls = 0

Init == VisInit /\ DebIdle /\ LibIdle

Show ==
  /\ calls < MaxCalls
  /\ \E instant \in BOOLEAN, cb \in Callbacks("show") :
       /\ Commit(show(State, instant, cb))
       /\ last' = Op("show", instant, cb, FALSE)
  /\ calls' = calls + 1
  /\ UNCHANGED <<debVars, libVars>>

Hide ==
  /\ calls < MaxCalls
  /\ \E instant \in BOOLEAN, cb \in Callbacks("hide") :
       /\ Commit(hide(State, instant, cb))
       /\ last' = Op("hide", instant, cb, FALSE)
  /\ calls' = calls + 1
  /\ UNCHANGED <<debVars, libVars>>

Stop ==
  /\ calls < MaxCalls
  /\ \E processCallbackQueue \in BOOLEAN :
       /\ Commit(stop(State, processCallbackQueue))
       /\ last' = Op("stop", FALSE, NoCb, processCallbackQueue)
  /\ calls' = calls + 1
  /\ UNCHANGED <<debVars, libVars>>

Destroy ==
  /\ calls < MaxCalls
  /\ Commit(destroy(State))
  /\ last' = Op("destroy", FALSE, NoCb, FALSE)
  /\ calls' = calls + 1
  /\ UNCHANGED <<debVars, libVars>>

\* The ticker begins a frame while something is registered: a callback of
\* the item, or a callback of another client that may still call the item.
FrameStart ==
  /\ tickPhase = "idle"
  /\ readTick # "none" \/ writeTick # "none" \/ calls < MaxCalls
  /\ Commit(frameStart(State))
  /\ last' = Op("frameStart", FALSE, NoCb, FALSE)
  /\ UNCHANGED calls
  /\ UNCHANGED <<debVars, libVars>>

\* The READ phase reaches the item's READ callback.
FrameRead ==
  /\ tickPhase = "read" /\ readNow
  /\ Commit(readPhase(State))
  /\ last' = Op("read", FALSE, NoCb, FALSE)
  /\ UNCHANGED calls
  /\ UNCHANGED <<debVars, libVars>>

\* The READ phase has called every callback it had to call.
FrameReadEnd ==
  /\ tickPhase = "read" /\ ~readNow
  /\ Commit(readDone(State))
  /\ last' = Op("readEnd", FALSE, NoCb, FALSE)
  /\ UNCHANGED calls
  /\ UNCHANGED <<debVars, libVars>>

\* The WRITE phase reaches the item's WRITE callback.
FrameWrite ==
  /\ tickPhase = "write" /\ writeNow
  /\ \E outside \in BOOLEAN :
       /\ Commit(writePhase(State, outside))
       /\ last' = Op("write", FALSE, NoCb, outside)
  /\ UNCHANGED calls
  /\ UNCHANGED <<debVars, libVars>>

\* The WRITE phase has called every callback it had to call.
FrameEnd ==
  /\ tickPhase = "write" /\ ~writeNow
  /\ Commit(frameDone(State))
  /\ last' = Op("frameEnd", FALSE, NoCb, FALSE)
  /\ UNCHANGED calls
  /\ UNCHANGED <<debVars, libVars>>

\* The steps of a frame.  show(), hide(), stop() and destroy() may be called
\* by other callbacks of the frame before, between and after them.
Frame == FrameStart \/ FrameRead \/ FrameReadEnd \/ FrameWrite \/ FrameEnd

\* The animation's finish event is handled outside the frames.
AnimationComplete ==
  /\ tickPhase = "idle"
  /\ animation \in {"show", "hide"}
  /\ Commit(animationFinished(State))
  /\ last' = Op("complete", FALSE, NoCb, FALSE)
  /\ UNCHANGED calls
  /\ UNCHANGED <<debVars, libVars>>

Next ==
  \/ Show \/ Hide \/ Stop \/ Destroy
  \/ FrameStart \/ FrameRead \/ FrameReadEnd \/ FrameWrite \/ FrameEnd
  \/ AnimationComplete

Spec == Init /\ [][Next]_vars

\* Bound: number of show and hide calls whose callback may call back into
\* the item.
MaxReentrantCalls == 2

\* show() and hide() are passed callbacks that call back into the item.
ShowReentrant ==
  /\ calls < MaxReentrantCalls
  /\ \E instant \in BOOLEAN, cb \in ReactingCallbacks("show") :
       /\ Commit(show(State, instant, cb))
       /\ last' = Op("show", instant, cb, FALSE)
  /\ calls' = calls + 1
  /\ UNCHANGED <<debVars, libVars>>

HideReentrant ==
  /\ calls < MaxReentrantCalls
  /\ \E instant \in BOOLEAN, cb \in ReactingCallbacks("hide") :
       /\ Commit(hide(State, instant, cb))
       /\ last' = Op("hide", instant, cb, FALSE)
  /\ calls' = calls + 1
  /\ UNCHANGED <<debVars, libVars>>

StopReentrant == calls < MaxReentrantCalls /\ Stop

NextReentrant ==
  \/ ShowReentrant \/ HideReentrant \/ StopReentrant
  \/ FrameStart \/ FrameRead \/ FrameReadEnd \/ FrameWrite \/ FrameEnd
  \/ AnimationComplete

\* The item starts as in Init, with any settings: either duration may be
\* zero, which makes every transition in that direction instant.
InitReentrant == Init

SpecReentrant == InitReentrant /\ [][NextReentrant]_vars

\* show(), hide() and stop() are called on an item that is never destroyed;
\* frames keep running and started animations reach their end.  The finish
\* event of an animation is handled between two frames, so it is handled
\* however many frames run (strong fairness).
NextStop ==
  \/ Show \/ Hide \/ Stop
  \/ FrameStart \/ FrameRead \/ FrameReadEnd \/ FrameWrite \/ FrameEnd
  \/ AnimationComplete

SpecStop ==
  /\ Init
  /\ [][NextStop]_vars
  /\ WF_vars(Frame)
  /\ SF_vars(AnimationComplete)

\* Only show() and hide() are called.  Frames keep running, and the finish
\* event of a started animation is handled between two frames.
NextShowHide ==
  \/ Show \/ Hide
  \/ FrameStart \/ FrameRead \/ FrameReadEnd \/ FrameWrite \/ FrameEnd
  \/ AnimationComplete

SpecShowHide ==
  /\ Init
  /\ [][NextShowHide]_vars
  /\ WF_vars(Frame)
  /\ SF_vars(AnimationComplete)

(***************************************************************************)
(* The debounce adapter                                                    *)
(***************************************************************************)

\* Bound: the host clock runs from 1 to MaxTime milliseconds.
MaxTime == 9

\* Bound: executions of fn after which the debounced function is no longer
\* called.
MaxRuns == 3

\* The delays debounce() is created with.
Delays == {-1, 0, 2, 3}

DebState ==
  [durationMs |-> dDuration, timer |-> dTimer, lastTime |-> dLastTime,
   isCanceled |-> dCanceled, tick |-> dTick, registered |-> dRegistered,
   runs |-> dRuns]

DebCommit(r) ==
  /\ dTimer' = r.timer
  /\ dLastTime' = r.lastTime
  /\ dCanceled' = r.isCanceled
  /\ dTick' = r.tick
  /\ dRegistered' = r.registered
  /\ dRuns' = r.runs
  /\ dDuration' = dDuration

\* fn()
fn(d) == [d EXCEPT !.runs = @ + 1]

\* tick() that does not register itself for the next frame.
tickOnlyOnce(d, time) ==
  IF d.isCanceled THEN d
  ELSE LET t == IF d.lastTime # 0 THEN d.timer - (time - d.lastTime)
                ELSE d.timer
       IN IF t > 0
          THEN [d EXCEPT !.timer = t, !.lastTime = time,
                         !.registered = IF time = 0 THEN d.tick ELSE @]
          ELSE fn([d EXCEPT !.timer = 0, !.lastTime = 0])

\* tick(time)
tick(d, time) ==
  IF d.isCanceled THEN d
  ELSE LET t == IF d.lastTime # 0 THEN d.timer - (time - d.lastTime)
                ELSE d.timer
       IN IF t > 0
          THEN [d EXCEPT !.timer = t, !.lastTime = time,
                         !.registered = IF d.tick THEN TRUE ELSE @]
          ELSE fn([d EXCEPT !.timer = 0, !.lastTime = 0])

\* debouncedFn() whose cancel branch forgets ticker.off().
debouncedFnKeepsRegistration(d, cancel) ==
  IF d.isCanceled THEN d
  ELSE IF d.durationMs <= 0 THEN (IF ~cancel THEN fn(d) ELSE d)
  ELSE IF cancel
       THEN [d EXCEPT !.isCanceled = TRUE, !.timer = 0, !.lastTime = 0,
                      !.tick = FALSE]
  ELSE IF d.timer <= 0
       THEN LET a == [d EXCEPT !.timer = d.durationMs]
            IN IF a.tick THEN tick(a, 0) ELSE a
  ELSE [d EXCEPT !.timer = d.durationMs]

\* debouncedFn() whose zero-delay branch does not look at the cancel flag.
debouncedFnRunsOnCancel(d, cancel) ==
  IF d.isCanceled THEN d
  ELSE IF d.durationMs <= 0 THEN fn(d)
  ELSE IF cancel
       THEN [d EXCEPT !.isCanceled = TRUE, !.timer = 0, !.lastTime = 0,
                      !.tick = FALSE, !.registered = FALSE]
  ELSE IF d.timer <= 0
       THEN LET a == [d EXCEPT !.timer = d.durationMs]
            IN IF a.tick THEN tick(a, 0) ELSE a
  ELSE [d EXCEPT !.timer = d.durationMs]

\* debouncedFn(cancel)
debouncedFn(d, cancel) ==
  IF d.isCanceled THEN d
  ELSE IF d.durationMs <= 0 THEN (IF ~cancel THEN fn(d) ELSE d)
  ELSE IF cancel
       THEN [d EXCEPT !.isCanceled = TRUE, !.timer = 0, !.lastTime = 0,
                      !.tick = FALSE, !.registered = FALSE]
  ELSE IF d.timer <= 0
       THEN LET a == [d EXCEPT !.timer = d.durationMs]
            IN IF a.tick THEN tick(a, 0) ELSE a
  ELSE [d EXCEPT !.timer = d.durationMs]

\* The READ phase of a frame of the ticker: the one-shot registration is
\* dropped and the callback is called with the frame's timestamp.
debFrame(d, time) == tick([d EXCEPT !.registered = FALSE], time)

\* The item is not exercised while the debounce adapter is.
VisIdle ==
  /\ settings = [visibleStyles |-> TRUE, hiddenStyles |-> TRUE,
                 showDuration |-> 300, hideDuration |-> 300,
                 animationWindowing |-> FALSE]
  /\ isHidden = FALSE /\ isHiding = FALSE /\ isShowing = FALSE
  /\ isDestroyed = FALSE /\ queue = <<>> /\ readTick = "none"
  /\ writeTick = "none" /\ currentStyles = FALSE /\ animation = "none"
  /\ needsRefresh = FALSE /\ display = "" /\ log = <<>> /\ ev = {}
  /\ tickPhase = "idle"
  /\ readNow = FALSE
  /\ writeNow = FALSE
  /\ readRan = FALSE
  /\ pairCurrent = FALSE
  /\ stopped = FALSE
  /\ last = [op |-> "init", instant |-> FALSE, cb |-> NoCb, flag |-> FALSE,
             call |-> "none",
             pre |-> [isHidden |-> FALSE, isHiding |-> FALSE,
                      isShowing |-> FALSE, isDestroyed |-> FALSE,
                      queue |-> <<>>, readTick |-> "none",
                      writeTick |-> "none", animation |-> "none",
                      display |-> "", needsRefresh |-> FALSE,
                      pairCurrent |-> FALSE, stopped |-> FALSE,
                      currentStyles |-> FALSE, phase |-> "idle",
                      readRan |-> FALSE,
                      logLen |-> 0]]
  /\ calls = 0

\* debounce(fn, durationMs)
DebInit ==
  /\ dDuration \in Delays
  /\ dTimer = 0 /\ dLastTime = 0 /\ dCanceled = FALSE /\ dTick = TRUE
  /\ dRegistered = FALSE /\ dNow = 1 /\ dFrameTime = 0 /\ dInvokedAt = 0
  /\ dRuns = 0
  /\ dLast = [op |-> "init", cancel |-> FALSE, ran |-> FALSE, runs |-> 0,
              cancelled |-> FALSE, armedAtCancel |-> FALSE, since |-> 0,
              coalesced |-> 0]

InitDebounce == VisIdle /\ DebInit /\ LibIdle

\* Bound: calls of the debounced function counted since fn last ran.
MaxSince == 2

\* The step taken, the number of runs before it, whether the debounced
\* function has ever been called with cancel = TRUE, whether the first
\* such call found the timer armed, and how many calls without cancel were
\* made since fn last ran (counted up to MaxSince), after and before the step.
DebOp(op, cancel, r) ==
  [op |-> op, cancel |-> cancel, ran |-> r.runs # dRuns, runs |-> dRuns,
   cancelled |-> dLast.cancelled \/ (op = "invoke" /\ cancel),
   armedAtCancel |->
     IF op = "invoke" /\ cancel /\ ~dLast.cancelled THEN dTimer > 0
     ELSE dLast.armedAtCancel,
   since |->
     IF r.runs # dRuns THEN 0
     ELSE IF op = "invoke" /\ ~cancel /\ ~dCanceled /\ dLast.since < MaxSince
          THEN dLast.since + 1
     ELSE dLast.since,
   coalesced |-> dLast.since]

\* The debounced function is called at the current time.
DebInvoke ==
  /\ dRuns < MaxRuns
  /\ \E cancel \in BOOLEAN :
       /\ DebCommit(debouncedFn(DebState, cancel))
       /\ dInvokedAt' = IF cancel THEN dInvokedAt ELSE dNow
       /\ dLast' = DebOp("invoke", cancel, debouncedFn(DebState, cancel))
  /\ UNCHANGED <<dNow, dFrameTime>>
  /\ UNCHANGED <<visVars, libVars>>

\* The ticker runs a frame, whose timestamp is the current time and later
\* than the previous frame's, while the tick is registered.
DebFrame ==
  /\ dRegistered
  /\ dNow > dFrameTime
  /\ DebCommit(debFrame(DebState, dNow))
  /\ dFrameTime' = dNow
  /\ dLast' = DebOp("frame", FALSE, debFrame(DebState, dNow))
  /\ UNCHANGED <<dNow, dInvokedAt>>
  /\ UNCHANGED <<visVars, libVars>>

\* A millisecond passes.
DebAdvance ==
  /\ dNow < MaxTime
  /\ dNow' = dNow + 1
  /\ dLast' = DebOp("advance", FALSE, DebState)
  /\ UNCHANGED <<dDuration, dTimer, dLastTime, dCanceled, dTick, dRegistered,
                 dFrameTime, dInvokedAt, dRuns>>
  /\ UNCHANGED <<visVars, libVars>>

NextDebounce == DebInvoke \/ DebFrame \/ DebAdvance

SpecDebounce == InitDebounce /\ [][NextDebounce]_vars

\* The debounced function is called without cancel, a bounded number of
\* times per run of fn and early enough for the clock to cover the delay.
DebInvokeInTime ==
  /\ dRuns < MaxRuns /\ dLast.since < MaxSince
  /\ dNow + 2 * dDuration + 2 <= MaxTime
  /\ DebCommit(debouncedFn(DebState, FALSE))
  /\ dInvokedAt' = dNow
  /\ dLast' = DebOp("invoke", FALSE, debouncedFn(DebState, FALSE))
  /\ UNCHANGED <<dNow, dFrameTime>>
  /\ UNCHANGED <<visVars, libVars>>

\* A millisecond passes; while the tick is registered the ticker lets at
\* most two milliseconds pass between frames.
DebAdvancePaced ==
  /\ dRegistered => dNow - dFrameTime < 2
  /\ DebAdvance

NextDebounceLive == DebInvokeInTime \/ DebFrame \/ DebAdvancePaced

\* Frames keep running with increasing timestamps.
SpecDebounceLive ==
  /\ InitDebounce
  /\ [][NextDebounceLive]_vars
  /\ WF_vars(DebFrame)
  /\ WF_vars(DebAdvancePaced)

(***************************************************************************)
(* Properties                                                              *)
(***************************************************************************)

\* The log entries written by the last operation.
Fired == SubSeq(log, last.pre.logLen + 1, Len(log))

\* The last operation was hide() on a showing item or show() on a hiding one.
Preempting ==
  \/ last.op = "hide" /\ last.pre.isShowing
  \/ last.op = "show" /\ last.pre.isHiding

\* C1: when hide() preempts a show in flight (or show() a hide), every callback
\* that was pending is invoked with interrupted = TRUE inside the call, in
\* order and before the new onFinish is stored; and whenever a transition
\* finishes, the callbacks it settles get interrupted = FALSE while isHidden()
\* is TRUE for a hide request and FALSE for a show request.
C1_Preemption ==
  /\ Preempting =>
       LET n == Len(last.pre.queue)
       IN /\ Len(Fired) >= n
          /\ \A i \in 1..n :
               /\ Fired[i].cb = last.pre.queue[i]
               /\ Fired[i].interrupted
          /\ last.cb # NoCb =>
               \/ queue = <<last.cb>> /\ Len(Fired) = n
               \/ /\ queue = <<>>
                  /\ Len(Fired) = n + 1
                  /\ Fired[n + 1].cb = last.cb
                  /\ ~Fired[n + 1].interrupted
                  /\ Fired[n + 1].isHidden = (last.op = "hide")
  /\ "finish" \in ev =>
       /\ queue = <<>>
       /\ \A i \in 1..Len(Fired) :
            ~Fired[i].interrupted =>
              Fired[i].isHidden = (Fired[i].cb.op = "hide")

\* A show request with a waiter was preempted by hide(false, cb2), whose
\* animation then ran to its end: cb fired interrupted, then cb2 not
\* interrupted while the item was hidden.
C1_Witness ==
  /\ last.op = "complete"
  /\ \E i, j \in 1..Len(log) :
       /\ i < j
       /\ log[i].cb.op = "show" /\ log[i].interrupted
       /\ log[j].cb.op = "hide" /\ ~log[j].interrupted /\ log[j].isHidden

\* C2: isHiding() and isShowing() are never both true.
C2_NeverHidingAndShowing == ~(isHiding /\ isShowing)

\* hide() has just preempted a show in flight.
C2_Witness == last.op = "hide" /\ last.pre.isShowing /\ isHiding

Settled == ~isShowing /\ ~isHiding /\ queue = <<>>

\* The transition in flight was begun by a call made during the READ phase of
\* a frame: its WRITE callback ran in that frame, before its READ callback,
\* and found no styles to animate from; nothing is pending or running that
\* could finish the transition.
Orphaned ==
  /\ isShowing \/ isHiding
  /\ ~stopped
  /\ readTick = "none" /\ writeTick = "none"
  /\ animation \notin {"show", "hide"}

SettledAsAsked ==
  /\ Settled
  /\ last.call = "hide" => isHidden
  /\ last.call = "show" => ~isHidden

\* C3: with only show() and hide() called, finitely often, the item ends up
\* neither showing nor hiding with an empty completion queue, hidden if the
\* last call was hide and visible if it was show.
C3_EventuallySettles == <>[]SettledAsAsked

\* What the program does instead: the item settles as asked unless its last
\* transition was orphaned.
SettlesUnlessOrphaned == <>[](SettledAsAsked \/ Orphaned)

\* hide(false, cb) was called during the READ phase of a frame on an item
\* that was showing; two frames later the item is still hiding, nothing is
\* pending, no animation runs and cb is still queued.
OrphanedHide ==
  /\ Orphaned /\ isHiding /\ tickPhase = "idle" /\ currentStyles
  /\ Len(queue) = 1 /\ queue[1].op = "hide"
  /\ \E i \in 1..Len(log) : log[i].cb.op = "show" /\ log[i].interrupted

\* The callbacks of a sequence of log entries, and the entries a burst of
\* the listeners q with one interrupted value writes.
CbsOf(es) == [i \in 1..Len(es) |-> es[i].cb]

AllWith(es, interrupted) ==
  \A i \in 1..Len(es) : es[i].interrupted = interrupted

\* The last operation left the flags, the queue, the scheduler registrations,
\* the animator and the element's display as they were.
Untouched ==
  /\ isHidden = last.pre.isHidden
  /\ isHiding = last.pre.isHiding
  /\ isShowing = last.pre.isShowing
  /\ isDestroyed = last.pre.isDestroyed
  /\ queue = last.pre.queue
  /\ readTick = last.pre.readTick
  /\ writeTick = last.pre.writeTick
  /\ animation = last.pre.animation
  /\ display = last.pre.display
  /\ needsRefresh = last.pre.needsRefresh
  /\ ev = {}

\* The last operation was show(true, cb2) on a showing item with a waiter.
InstantShowWhileShowing ==
  /\ last.op = "show" /\ last.instant /\ last.cb # NoCb
  /\ last.pre.isShowing /\ Len(last.pre.queue) >= 1

\* C4 as stated: show(true, cb2) while showing with cb1 pending invokes cb1
\* with interrupted = TRUE before cb2 is invoked with interrupted = FALSE.
C4_InterruptedBeforeFinish ==
  InstantShowWhileShowing =>
    \A j \in 1..Len(log) :
      (log[j].cb = last.cb /\ ~log[j].interrupted) =>
        \A k \in 1..Len(last.pre.queue) :
          \E i \in 1..(j - 1) :
            log[i].cb = last.pre.queue[k] /\ log[i].interrupted

\* C4 amended: show(true, cb2) while showing with cb1 pending does not
\* interrupt cb1: inside the call cb1 and then cb2 are invoked, both with
\* interrupted = FALSE, and the queue is left empty.
C4_FinishedTogether ==
  InstantShowWhileShowing =>
    /\ CbsOf(Fired) = Append(last.pre.queue, last.cb)
    /\ AllWith(Fired, FALSE)
    /\ queue = <<>>
    /\ ~isShowing /\ ~isHidden

C4_Witness == InstantShowWhileShowing /\ Len(Fired) >= 2

\* The last operation was a request for the state the item has settled in.
NoopRequest ==
  /\ ~last.pre.isDestroyed
  /\ \/ last.op = "show" /\ ~last.pre.isHidden /\ ~last.pre.isShowing
     \/ last.op = "hide" /\ last.pre.isHidden /\ ~last.pre.isHiding

\* C5: show() on a visible-settled item (hide() on a hidden-settled one)
\* invokes the callback once with interrupted = FALSE inside the call and
\* changes nothing else.
C5_NoopRequest ==
  NoopRequest =>
    /\ Untouched
    /\ CbsOf(Fired) = IF last.cb = NoCb THEN <<>> ELSE <<last.cb>>
    /\ AllWith(Fired, FALSE)

C5_Witness ==
  /\ NoopRequest /\ last.op = "show" /\ last.cb # NoCb
  /\ Len(Fired) = 1 /\ last.pre.writeTick # "none"

\* The last operation was a non-instant request for the transition in flight.
Coalesced ==
  /\ ~last.instant
  /\ \/ last.op = "show" /\ last.pre.isShowing
     \/ last.op = "hide" /\ last.pre.isHiding

\* C6: a non-instant show() while showing (hide() while hiding) only appends
\* the callback to the queue; and a queue is always delivered as a whole, so
\* the callback is invoked after the ones queued before it, in the same burst
\* and with the same interrupted value.
C6_Coalescing ==
  /\ Coalesced =>
       /\ queue = IF last.cb = NoCb THEN last.pre.queue
                  ELSE Append(last.pre.queue, last.cb)
       /\ Fired = <<>>
       /\ isHidden = last.pre.isHidden
       /\ isHiding = last.pre.isHiding
       /\ isShowing = last.pre.isShowing
       /\ readTick = last.pre.readTick
       /\ writeTick = last.pre.writeTick
       /\ animation = last.pre.animation
       /\ ev = {}
  /\ LET n == Len(last.pre.queue)
     IN \/ /\ Len(queue) >= n
           /\ SubSeq(queue, 1, n) = last.pre.queue
           /\ \A i \in 1..Len(Fired), k \in 1..n :
                Fired[i].cb # last.pre.queue[k]
        \/ /\ Len(Fired) >= n
           /\ SubSeq(CbsOf(Fired), 1, n) = last.pre.queue
           /\ \A i \in 1..n : Fired[i].interrupted = Fired[1].interrupted

\* Two show requests were coalesced and their callbacks delivered together
\* when the animation ended.
C6_Witness ==
  /\ last.op = "complete"
  /\ Len(Fired) >= 2
  /\ Fired[1].cb.op = "show" /\ Fired[2].cb.op = "show"
  /\ ~Fired[2].interrupted

\* The last operation was a show() or hide() that started a transition which
\* had to be instant.
InstantTransition ==
  /\ last.op \in {"show", "hide"}
  /\ ~last.pre.isDestroyed /\ ~NoopRequest /\ ~Coalesced
  /\ \/ last.instant
     \/ last.op = "show" /\ settings.showDuration <= 0
     \/ last.op = "hide" /\ settings.hideDuration <= 0

TargetStyles ==
  IF last.op = "show" THEN settings.visibleStyles ELSE settings.hiddenStyles

InstantOutcome ==
  /\ ~isShowing /\ ~isHiding
  /\ isHidden = (last.op = "hide")
  /\ last.cb # NoCb =>
       /\ Len(Fired) >= 1
       /\ Fired[Len(Fired)].cb = last.cb
       /\ ~Fired[Len(Fired)].interrupted
  /\ queue = <<>>
  /\ animation = "none" /\ "stop" \in ev /\ "start" \notin ev
  /\ "register" \notin ev

\* C7 as stated: an instant transition completes inside the call and leaves
\* no scheduler registration keyed by the item pending.
C7_InstantLeavesNothingPending ==
  InstantTransition =>
    /\ InstantOutcome
    /\ readTick = "none" /\ writeTick = "none"

\* C7 amended: an instant transition completes inside the call; the pending
\* registration is cancelled when the target style set is defined, and left
\* as it was when the target style set is undefined.
C7_InstantTransition ==
  InstantTransition =>
    /\ InstantOutcome
    /\ TargetStyles => readTick = "none" /\ writeTick = "none"
    /\ ~TargetStyles =>
         readTick = last.pre.readTick /\ writeTick = last.pre.writeTick

\* An instant hide preempted a show whose read/write pair was pending.
C7_Witness ==
  /\ InstantTransition /\ last.op = "hide" /\ last.instant
  /\ last.pre.writeTick = "show" /\ last.cb # NoCb
  /\ TargetStyles /\ writeTick = "none"

\* C8: stop() on a showing or hiding item cancels the registration, stops
\* the animator, bursts the queue with interrupted = TRUE exactly when
\* processCallbackQueue is TRUE, and leaves the flags alone; on any other
\* item it does nothing.
C8_Stop ==
  last.op = "stop" =>
    IF last.pre.isShowing \/ last.pre.isHiding
    THEN /\ readTick = "none" /\ writeTick = "none"
         /\ animation = "none"
         /\ {"cancel", "stop"} \subseteq ev
         /\ isHidden = last.pre.isHidden
         /\ isHiding = last.pre.isHiding
         /\ isShowing = last.pre.isShowing
         /\ isDestroyed = last.pre.isDestroyed
         /\ IF last.flag
            THEN /\ CbsOf(Fired) = last.pre.queue
                 /\ AllWith(Fired, TRUE)
                 /\ queue = <<>>
            ELSE Fired = <<>> /\ queue = last.pre.queue
    ELSE Untouched /\ Fired = <<>>

\* stop(false) left the waiters of a running show animation in the queue.
C8_Witness ==
  /\ last.op = "stop" /\ ~last.flag
  /\ last.pre.isShowing /\ last.pre.animation = "show"
  /\ Len(queue) >= 1

\* C9: destroy() leaves (hidden, not hiding, not showing, destroyed), and
\* nothing that happens to a destroyed item changes its state, registers
\* with the scheduler, starts an animation or invokes a callback.
C9_DestroyIsTerminal ==
  /\ last.op = "destroy" => isDestroyed
  /\ isDestroyed => isHidden /\ ~isHiding /\ ~isShowing
  /\ last.pre.isDestroyed =>
       /\ isDestroyed
       /\ queue = last.pre.queue
       /\ animation = last.pre.animation
       /\ display = last.pre.display
       /\ Fired = <<>>
       /\ ev \cap {"register", "start", "burst", "finish"} = {}
       /\ readTick \in {"none", last.pre.readTick}
       /\ writeTick \in {"none", last.pre.writeTick}

\* show(instant, cb) was called on a destroyed item.
C9_Witness ==
  /\ last.pre.isDestroyed /\ last.op = "show" /\ last.cb # NoCb

\* C10: with a delay D > 0 the action runs only at a tick whose timestamp is
\* at least D later than the most recent non-cancel invocation.
C10_QuietPeriod ==
  (dDuration > 0 /\ dLast.op = "frame" /\ dLast.ran) =>
    dNow - dInvokedAt >= dDuration

\* C11: with a delay D > 0, once the debounced function has been called with
\* cancel = TRUE while armed, the action is never executed again and the tick
\* is no longer registered with the ticker.
C11_CancelWhileArmed ==
  (dDuration > 0 /\ dLast.armedAtCancel) =>
    /\ ~dLast.ran /\ dRuns = dLast.runs
    /\ ~dRegistered
    /\ dCanceled /\ dTimer = 0

\* The armed function was cancelled before its first run, it was called
\* again afterwards, and more than the delay has passed since.
C11_Witness ==
  /\ dDuration > 0 /\ dLast.armedAtCancel /\ dRuns = 0
  /\ dInvokedAt > 0 /\ dNow - dInvokedAt > dDuration

\* C12: for every delay, once the debounced function has been called with
\* cancel = TRUE, no later call executes the action or registers the tick.
C12_CancelIsTerminal ==
  dLast.cancelled => ~dLast.ran /\ ~dRegistered

\* C13: with a delay <= 0 a call without the cancel flag executes the action
\* exactly once inside the call, a call with it executes nothing, and nothing
\* is ever registered with the ticker.
C13_ZeroDelay ==
  dDuration <= 0 =>
    /\ ~dRegistered /\ dTimer = 0
    /\ dLast.op = "invoke" =>
         dRuns = dLast.runs + (IF dLast.cancel THEN 0 ELSE 1)

\* With a zero delay the action has run twice, the second time inside the
\* last call.
C13_Witness ==
  /\ dDuration = 0 /\ dLast.op = "invoke" /\ ~dLast.cancel
  /\ dLast.ran /\ dRuns = 2

\* C18: no onFinish callback is invoked more than once.
C18_AtMostOnce ==
  \A i, j \in 1..Len(log) : i # j => log[i].cb # log[j].cb

\* A show request was stopped with stop(true), which interrupted its two
\* waiters; the hide() that followed found nothing left to invoke.
C18_Witness ==
  /\ last.op = "hide" /\ last.pre.isShowing
  /\ last.pre.queue = <<>> /\ last.pre.logLen >= 2
  /\ last.pre.writeTick = "none" /\ last.pre.animation = "none"
  /\ log[1].interrupted /\ log[2].interrupted

\* C20: destroy() on a showing or hiding item invokes every pending callback
\* once with interrupted = TRUE, inside the call and before the state is
\* reset; on an item that is neither, it invokes nothing.
C20_DestroyInterrupts ==
  (last.op = "destroy" /\ ~last.pre.isDestroyed) =>
    /\ queue = <<>>
    /\ IF last.pre.isShowing \/ last.pre.isHiding
       THEN /\ CbsOf(Fired) = last.pre.queue
            /\ AllWith(Fired, TRUE)
            /\ \A i \in 1..Len(Fired) :
                 /\ Fired[i].isShowing = last.pre.isShowing
                 /\ Fired[i].isHiding = last.pre.isHiding
                 /\ Fired[i].isHidden = last.pre.isHidden
       ELSE Fired = <<>> /\ last.pre.queue = <<>>

\* destroy() interrupted the two waiters of a hide in flight.
C20_Witness ==
  /\ last.op = "destroy" /\ last.pre.isHiding
  /\ Len(Fired) = 2 /\ isDestroyed

\* C17: animator.start is only called by the WRITE callback of a frame whose
\* READ callback, registered by the same request, ran earlier in that frame,
\* on an item that is not destroyed and is still showing (hiding) as the pair
\* asks; a callback whose request was superseded, stopped or destroyed before
\* it runs starts no animation and calls no finish handler.
C17_DeferredStart ==
  /\ "start" \in ev =>
       /\ last.op = "write"
       /\ last.pre.readRan /\ last.pre.currentStyles /\ last.pre.pairCurrent
       /\ last.pre.readTick = "none" /\ last.pre.writeTick = animation
       /\ last.pre.animation \in {"none", "nulled"}
       /\ ~isDestroyed
       /\ animation = "show" => isShowing
       /\ animation = "hide" => isHiding
  /\ (last.op \in {"read", "write"} /\ ~last.pre.pairCurrent) =>
       /\ ev \cap {"start", "onFinish", "read"} = {}
       /\ animation = last.pre.animation

\* A frame ran the pair of a hide request that had superseded a show: the
\* READ callback captured the styles and the WRITE callback of the same
\* frame started the animation toward the hidden styles.
C17_Witness ==
  /\ last.op = "write" /\ last.pre.pairCurrent /\ last.pre.readRan
  /\ "start" \in ev /\ animation = "hide" /\ isHiding
  /\ calls >= 2 /\ last.pre.writeTick = "hide"

\* The pair of a show request was left pending by a hide() that finished at
\* once for want of hidden styles; the frame ran its WRITE callback and
\* nothing happened.
C17_StalePairRan ==
  /\ last.op = "write" /\ ~last.pre.pairCurrent
  /\ last.pre.writeTick = "show" /\ last.pre.isHidden
  /\ ~last.pre.isDestroyed /\ ev = {}

\* hide() was called during the READ phase of a frame: its WRITE callback ran
\* in that frame, before its READ callback, and started nothing.
C17_WriteBeforeRead ==
  /\ last.op = "write" /\ last.pre.pairCurrent /\ ~last.pre.readRan
  /\ last.pre.writeTick = "hide" /\ readTick = "hide" /\ isHiding
  /\ ev = {} /\ animation = "none"

\* The transition in flight was halted by stop() and nothing is pending that
\* could finish it.
Stalled ==
  /\ stopped /\ (isShowing \/ isHiding)
  /\ readTick = "none" /\ writeTick = "none"
  /\ animation \notin {"show", "hide"}

Delivered == ~isShowing /\ ~isHiding /\ queue = <<>>

\* C19 as stated: whatever show, hide and stop calls were made, in the end
\* every callback has been invoked and the item is neither showing nor hiding.
C19_EventualDelivery == <>[]Delivered

\* What the program does instead: in the end either every callback has been
\* invoked and the item has settled, or stop() halted the transition in
\* flight and no later call began a new one, or the last transition was
\* orphaned.
DeliveryUnlessStoppedOrOrphaned == <>[](Delivered \/ Stalled \/ Orphaned)

\* A show request joined a transition that stop(true) had halted: its
\* callback is queued, the item is showing, and nothing is pending.
StalledShow ==
  /\ Stalled /\ isShowing /\ last.op = "show" /\ ~last.instant
  /\ last.pre.stopped /\ last.pre.queue = <<>> /\ Len(queue) = 1
  /\ Len(log) >= 1

(***************************************************************************)
(* The frame scheduler (ticker), from its contract: two phases, READ and   *)
(* WRITE, each an ordered list of one-shot callbacks keyed by their owner. *)
(***************************************************************************)
\* Bounds: registrations made from outside a frame, and frames run.
MaxTicks == 3
MaxFrames == 2

TickKeys == {"item", "debounce"}

\* What a callback does when it runs: nothing more, register itself again
\* for the READ phase (debounce's tick), or register a WRITE callback under
\* its own key.
TickDoes == {"nothing", "read", "write"}

Lane(tk, phase) == IF phase = "read" THEN tk.reads ELSE tk.writes

Without(lane, key) == SelectSeq(lane, LAMBDA e : e.key # key)

IdsOf(lane, key) == {lane[i].id : i \in {j \in 1..Len(lane) : lane[j].key = key}}

\* ticker.once(phase, callback, key) that queues the callback without looking
\* for one already pending under the key.
tickerOnceKeepsOld(tk, phase, key, does) ==
  LET cb == [id |-> tk.next, key |-> key, does |-> does,
             regFrame |-> tk.frame, regPhase |-> tk.phase]
      n == [tk EXCEPT !.next = @ + 1]
  IN IF phase = "read" THEN [n EXCEPT !.reads = Append(@, cb)]
     ELSE [n EXCEPT !.writes = Append(@, cb)]

\* ticker.once(phase, callback, key): the callback pending under (phase, key),
\* if any, is dropped and the new one joins the end of the lane.
tickerOnce(tk, phase, key, does) ==
  LET cb == [id |-> tk.next, key |-> key, does |-> does,
             regFrame |-> tk.frame, regPhase |-> tk.phase]
      lane == Lane(tk, phase)
      n == [tk EXCEPT !.next = @ + 1,
                      !.replaced = @ \cup IdsOf(lane, key)]
  IN IF phase = "read" THEN [n EXCEPT !.reads = Append(Without(lane, key), cb)]
     ELSE [n EXCEPT !.writes = Append(Without(lane, key), cb)]

\* ticker.off(phase, key) for both phases: whatever is pending under the key
\* is removed; nothing pending is not an error.
tickerOff(tk, key) ==
  [tk EXCEPT !.reads = Without(@, key), !.writes = Without(@, key),
             !.run = Without(@, key),
             !.cancelled = @ \cup IdsOf(tk.reads, key)
                             \cup IdsOf(tk.writes, key) \cup IdsOf(tk.run, key)]

\* The frame begins: the READ callbacks pending now are the ones it runs.
frameBegin(tk) ==
  [tk EXCEPT !.phase = "read", !.run = tk.reads, !.reads = <<>>,
             !.frame = @ + 1]

\* The callback at the head of the running phase is called.
runCallback(tk) ==
  LET cb == Head(tk.run)
      c == [tk EXCEPT !.run = Tail(@),
                      !.trace = Append(@, [id |-> cb.id, key |-> cb.key,
                                           phase |-> tk.phase,
                                           frame |-> tk.frame,
                                           regFrame |-> cb.regFrame,
                                           regPhase |-> cb.regPhase])]
  IN IF cb.does = "read" THEN tickerOnce(c, "read", cb.key, "nothing")
     ELSE IF cb.does = "write" THEN tickerOnce(c, "write", cb.key, "nothing")
     ELSE c

\* The running phase is done.  After READ, the ticker runs the WRITE callbacks
\* as if the callbacks pending at the start of the frame were the ones to run:
\* a WRITE registered during the READ phase waits for the next frame.
phaseEndEarlySnapshot(tk) ==
  IF tk.phase = "read"
  THEN LET old == SelectSeq(tk.writes, LAMBDA e : e.regFrame < tk.frame)
           new == SelectSeq(tk.writes, LAMBDA e : e.regFrame = tk.frame)
       IN [tk EXCEPT !.phase = "write", !.run = old, !.writes = new]
  ELSE [tk EXCEPT !.phase = "idle"]

\* The running phase is done: after READ come the WRITE callbacks pending at
\* that point; after WRITE the frame is over.
phaseEnd(tk) ==
  IF tk.phase = "read"
  THEN [tk EXCEPT !.phase = "write", !.run = tk.writes, !.writes = <<>>]
  ELSE [tk EXCEPT !.phase = "idle"]

InitLib == VisIdle /\ DebIdle /\ LibIdle

\* A collaborator registers a callback between two frames.
TickerOnce ==
  /\ ticker.phase = "idle" /\ ticker.next <= MaxTicks
  /\ \E phase \in {"read", "write"}, key \in TickKeys, does \in TickDoes :
       /\ phase = "write" => does = "nothing"
       /\ ticker' = tickerOnce(ticker, phase, key, does)
  /\ UNCHANGED <<visVars, debVars, emitter, grid>>

\* A collaborator cancels a key between two frames.
TickerOff ==
  /\ ticker.phase = "idle" /\ ticker.next <= MaxTicks
  /\ \E key \in TickKeys : ticker' = tickerOff(ticker, key)
  /\ UNCHANGED <<visVars, debVars, emitter, grid>>

\* The host calls the frame callback; the ticker requests frames only while
\* something is pending.
TickerFrame ==
  /\ ticker.phase = "idle" /\ ticker.frame < MaxFrames
  /\ ticker.reads # <<>> \/ ticker.writes # <<>>
  /\ ticker' = frameBegin(ticker)
  /\ UNCHANGED <<visVars, debVars, emitter, grid>>

TickerRun ==
  /\ ticker.phase # "idle" /\ ticker.run # <<>>
  /\ ticker' = runCallback(ticker)
  /\ UNCHANGED <<visVars, debVars, emitter, grid>>

TickerPhaseEnd ==
  /\ ticker.phase # "idle" /\ ticker.run = <<>>
  /\ ticker' = phaseEnd(ticker)
  /\ UNCHANGED <<visVars, debVars, emitter, grid>>

NextTicker ==
  TickerOnce \/ TickerOff \/ TickerFrame \/ TickerRun \/ TickerPhaseEnd

SpecTicker == InitLib /\ [][NextTicker]_vars

\* C14: in a frame the READ callbacks run before the WRITE callbacks, each
\* phase in registration order; a WRITE callback registered by a READ
\* callback runs in the frame of that READ callback; and the callbacks of a
\* frame have all run before those of the next frame.
C14_PhaseOrdering ==
  /\ \A i, j \in 1..Len(ticker.trace) :
       i < j =>
         LET a == ticker.trace[i]
             b == ticker.trace[j]
         IN /\ a.frame <= b.frame
            /\ (a.frame = b.frame /\ b.phase = "read") => a.phase = "read"
            /\ (a.frame = b.frame /\ a.phase = b.phase) => a.id < b.id
  /\ \A i \in 1..Len(ticker.trace) :
       LET a == ticker.trace[i]
       IN (a.phase = "write" /\ a.regPhase = "read") => a.frame = a.regFrame
  /\ ticker.phase = "idle" =>
       \A i \in 1..Len(ticker.writes) : ticker.writes[i].regPhase # "read"
  /\ ticker.phase # "read" =>
       \A i \in 1..Len(ticker.reads) :
         ticker.reads[i].regFrame = ticker.frame

\* A frame ran two READ callbacks, then a WRITE callback registered before
\* the frame and the WRITE callback one of the READ callbacks registered.
C14_Witness ==
  /\ ticker.phase = "idle" /\ Len(ticker.trace) = 4
  /\ ticker.trace[2].phase = "read" /\ ticker.trace[3].phase = "write"
  /\ ticker.trace[4].regPhase = "read" /\ ticker.trace[4].frame = 1
  /\ ticker.trace[3].regPhase = "idle"

Pending(tk) == tk.reads \o tk.writes \o tk.run

PendingPhase(tk, e) ==
  IF \E i \in 1..Len(tk.reads) : tk.reads[i] = e THEN "read"
  ELSE IF \E i \in 1..Len(tk.writes) : tk.writes[i] = e THEN "write"
  ELSE tk.phase

\* C15: at most one callback is pending per (phase, key), and a callback
\* replaced by a later registration for its phase and key is never called.
C15_LastWriteWins ==
  /\ \A i, j \in 1..Len(Pending(ticker)) :
       LET a == Pending(ticker)[i]
           b == Pending(ticker)[j]
       IN (i # j /\ a.key = b.key) =>
            PendingPhase(ticker, a) # PendingPhase(ticker, b)
  /\ \A i \in 1..Len(ticker.trace) :
       ticker.trace[i].id \notin ticker.replaced
  /\ \A i \in 1..Len(Pending(ticker)) :
       Pending(ticker)[i].id \notin ticker.replaced

\* Two WRITE callbacks were registered under one key before the frame; the
\* frame ran the second and is over.
C15_Witness ==
  /\ ticker.phase = "idle" /\ ticker.frame = 1
  /\ ticker.replaced = {1} /\ Len(ticker.trace) = 1
  /\ ticker.trace[1].id = 2 /\ ticker.trace[1].phase = "write"

(***************************************************************************)
(* The callback queue (emitter), from its contract: per key an ordered     *)
(* list of one-shot listeners, drained by burst.                           *)
(***************************************************************************)
\* Bounds: listeners registered from outside a burst, and bursts made.
MaxListeners == 3
MaxBursts == 3

\* "c" is a key nothing is ever registered under.
EmitterKeys == {"a", "b", "c"}

\* What a listener does when it is invoked: nothing more, or register a
\* listener under the key it was stored under.
ListenerDoes == {"nothing", "on"}

ListenersOf(e, key) ==
  IF key \in DOMAIN e.listeners THEN e.listeners[key] ELSE <<>>

SetListeners(e, key, ls) ==
  [e EXCEPT !.listeners = [k \in DOMAIN e.listeners \cup {key} |->
                             IF k = key THEN ls ELSE e.listeners[k]]]

\* emitter.on(key, listener)
emOn(e, key, does) ==
  [SetListeners(e, key, Append(ListenersOf(e, key),
                               [id |-> e.next, does |-> does]))
     EXCEPT !.next = @ + 1]

\* emitter.clear(key)
emClear(e, key) ==
  IF key \in DOMAIN e.listeners THEN SetListeners(e, key, <<>>) ELSE e

\* One listener is called with the arguments of the burst.
emInvoke(e, l, key, args) ==
  LET c == [e EXCEPT !.trace = Append(@, [id |-> l.id, key |-> key,
                                          args |-> args, burst |-> e.bursts])]
  IN IF l.does = "on" THEN emOn(c, key, "nothing") ELSE c

RECURSIVE emInvokeAll(_, _, _, _)
emInvokeAll(e, ls, key, args) ==
  IF ls = <<>> THEN e
  ELSE emInvokeAll(emInvoke(e, Head(ls), key, args), Tail(ls), key, args)

\* emitter.burst(key, args) that calls the listeners first and empties the
\* queue afterwards.
emBurstClearsLast(e, key, args) ==
  LET ls == ListenersOf(e, key)
      b == [e EXCEPT !.bursts = @ + 1]
  IN IF ls = <<>> THEN b
     ELSE SetListeners(emInvokeAll(b, ls, key, args), key, <<>>)

\* emitter.burst(key, args): the queue of the key is emptied, then the
\* listeners it held are called in order; nothing happens for a key with no
\* listener.
emBurst(e, key, args) ==
  LET ls == ListenersOf(e, key)
      b == [e EXCEPT !.bursts = @ + 1]
  IN IF ls = <<>> THEN b
     ELSE emInvokeAll(SetListeners(b, key, <<>>), ls, key, args)

EmOp(op, key, args) ==
  [op |-> op, key |-> key, args |-> args, pre |-> emitter.listeners,
   traceLen |-> Len(emitter.trace)]

EmOn ==
  /\ emitter.next <= MaxListeners
  /\ \E key \in EmitterKeys \ {"c"}, does \in ListenerDoes :
       emitter' = [emOn(emitter, key, does)
                     EXCEPT !.last = EmOp("on", key, FALSE)]
  /\ UNCHANGED <<visVars, debVars, ticker, grid>>

EmBurst ==
  /\ emitter.bursts < MaxBursts
  /\ \E key \in EmitterKeys, args \in BOOLEAN :
       emitter' = [emBurst(emitter, key, args)
                     EXCEPT !.last = EmOp("burst", key, args)]
  /\ UNCHANGED <<visVars, debVars, ticker, grid>>

EmClear ==
  /\ emitter.bursts < MaxBursts
  /\ \E key \in EmitterKeys :
       emitter' = [emClear(emitter, key)
                     EXCEPT !.last = EmOp("clear", key, FALSE)]
  /\ UNCHANGED <<visVars, debVars, ticker, grid>>

NextEmitter == EmOn \/ EmBurst \/ EmClear

SpecEmitter == InitLib /\ [][NextEmitter]_vars

\* The listeners stored under the key of the last operation before it, and
\* the calls the operation made.
EmBefore ==
  IF emitter.last.key \in DOMAIN emitter.last.pre
  THEN emitter.last.pre[emitter.last.key] ELSE <<>>

EmFired == SubSeq(emitter.trace, emitter.last.traceLen + 1, Len(emitter.trace))

\* C16: burst(key, args) calls the listeners stored under key when it is
\* made, once each, in order, with args, and removes them from the queue; a
\* listener registered during the burst is not called by it and is what the
\* queue holds afterwards; with no listener under key nothing is called and
\* the queues stay as they were.
C16_Burst ==
  emitter.last.op = "burst" =>
    /\ Len(EmFired) = Len(EmBefore)
    /\ \A i \in 1..Len(EmFired) :
         /\ EmFired[i].id = EmBefore[i].id
         /\ EmFired[i].args = emitter.last.args
         /\ EmFired[i].key = emitter.last.key
    /\ LET after == ListenersOf(emitter, emitter.last.key)
       IN /\ \A i \in 1..Len(after) :
               /\ \A j \in 1..Len(emitter.trace) :
                    emitter.trace[j].id # after[i].id
               /\ \A j \in 1..Len(EmBefore) : EmBefore[j].id < after[i].id
          /\ Len(after) =
               Cardinality({j \in 1..Len(EmBefore) : EmBefore[j].does = "on"})
    /\ \A k \in DOMAIN emitter.last.pre :
         k # emitter.last.key => emitter.listeners[k] = emitter.last.pre[k]
    /\ EmBefore = <<>> => emitter.listeners = emitter.last.pre

\* A burst called two listeners, one of which registered a listener during
\* the burst; that listener was not called and is alone in the queue.
C16_Witness ==
  /\ emitter.last.op = "burst" /\ Len(EmBefore) = 2 /\ Len(EmFired) = 2
  /\ EmBefore[1].does = "on"
  /\ Len(ListenersOf(emitter, emitter.last.key)) = 1

\* C24: a hiding item is hidden and a showing item is not; an item reports
\* isHidden() (isVisible() = FALSE) as soon as hide() has begun a transition.
C24_FlagCoupling ==
  /\ isHiding => isHidden
  /\ isShowing => ~isHidden
  /\ (last.op = "hide" /\ "begin" \in ev) => isHidden /\ ~isVisible(State)

\* hide() has begun a transition on a visible item: the pair is registered,
\* no animation has started, and the item already reports hidden.
C24_Witness ==
  /\ last.op = "hide" /\ "begin" \in ev /\ ~last.pre.isHidden
  /\ isHiding /\ isHidden /\ writeTick = "hide" /\ animation = "none"
  /\ ~isVisible(State)

\* C25: on an item that is not destroyed the display is suppressed exactly
\* when the item is hidden and not hiding.
C25_DisplaySuppression ==
  ~isDestroyed => (display = "none" <=> (isHidden /\ ~isHiding))

\* A hide animation reached its end and suppressed the display of an item
\* that was shown during the whole transition.
C25_Witness ==
  /\ last.op = "complete" /\ last.pre.isHiding /\ last.pre.display = ""
  /\ display = "none" /\ isHidden /\ ~isHiding /\ ~isDestroyed

DebounceIdle == dTimer = 0 /\ dLastTime = 0 /\ ~dRegistered

\* C22: for a delay above zero and no cancel, the calls made since fn last
\* ran lead to one run of fn, made by a READ tick of a frame, after which the
\* instance is idle; the run eventually happens once the calls cease.
C22_Coalescing ==
  /\ [](dDuration > 0 =>
          /\ dLast.since = 0 <=> DebounceIdle
          /\ dLast.since >= 1 => dTimer > 0 /\ dRegistered
          /\ dLast.ran =>
               /\ dLast.op = "frame" /\ dRuns = dLast.runs + 1
               /\ DebounceIdle)
  /\ (dDuration > 0 => <>[](DebounceIdle /\ dLast.since = 0))

\* fn ran a second time, once for the two calls made since its first run,
\* and the instance is idle again.
C22_Witness ==
  /\ dDuration > 0 /\ dLast.ran /\ dLast.op = "frame" /\ dRuns = 2
  /\ dLast.coalesced = 2 /\ DebounceIdle

\* What a callback observed when it was invoked is what its request asked
\* for: hidden and at rest for hide(), visible and at rest for show().
Satisfied(e) ==
  /\ ~e.isHiding /\ ~e.isShowing
  /\ e.isHidden = (e.cb.op = "hide")

PassedOutside(cb) == cb.n > 0

InnerUnsatisfied ==
  /\ last.op = "complete" /\ Len(Fired) = 2 /\ ~isHidden
  /\ ~PassedOutside(Fired[1].cb) /\ Fired[1].cb.op = "hide"
  /\ ~Fired[1].interrupted /\ ~Satisfied(Fired[1])
  /\ Fired[2].cb.op = "show" /\ Satisfied(Fired[2])

(***************************************************************************)
(* Several items of one grid: every item has its own visibility state, the *)
(* refresh flag belongs to the grid, and the ticker runs the pending       *)
(* callbacks of all items in one frame.                                    *)
(***************************************************************************)
\* Bound: show and hide calls made on the items of the grid.
MaxGridCalls == 3

\* The state of item i as its methods see it: its own fields and the grid's
\* flag.
gridItem(g, i) ==
  [g.items[i] EXCEPT !.needsRefresh = g.needsRefresh, !.ev = {}]

\* A lane of the ticker after an operation of item i: a callback registered
\* by the operation joins the end, one that was cancelled or called leaves.
gridLane(lane, i, pending, registered) ==
  LET others == SelectSeq(lane, LAMBDA j : j # i)
  IN IF ~pending THEN others
     ELSE IF registered THEN Append(others, i)
     ELSE lane

\* The result r of a method or callback of item i, written back to the grid.
gridPut(g, i, r) ==
  LET registered == "register" \in r.ev
      now == IF g.phase = "read" THEN r.readNow
             ELSE IF g.phase = "write" THEN r.writeNow
             ELSE FALSE
  IN [g EXCEPT !.items[i] = [r EXCEPT !.ev = {}, !.needsRefresh = FALSE],
               !.needsRefresh = r.needsRefresh,
               !.reads = gridLane(@, i, r.readTick # "none" /\ ~r.readNow,
                                  registered),
               !.writes = gridLane(@, i, r.writeTick # "none" /\ ~r.writeNow,
                                   registered),
               !.run = gridLane(@, i, now, FALSE)]

\* The ticker begins a frame: the READ callbacks pending now are the ones
\* its READ phase calls, in registration order.
gridFrameStart(g) ==
  [g EXCEPT !.items = [i \in Items |-> frameStart(g.items[i])],
            !.phase = "read", !.run = g.reads, !.reads = <<>>,
            !.ran = <<>>, !.refreshed = <<>>, !.started = FALSE]

\* The READ phase calls the READ callback at the head of what is left.
gridRead(g) ==
  LET i == Head(g.run)
      r == readPhase(gridItem(g, i))
  IN [gridPut(g, i, r)
        EXCEPT !.ran = IF "read" \in r.ev THEN Append(@, i) ELSE @,
               !.refreshed = IF "refresh" \in r.ev THEN Append(@, i) ELSE @]

\* The READ phase is over: the WRITE callbacks pending at this point are the
\* ones the WRITE phase calls.
gridReadDone(g) ==
  [g EXCEPT !.items = [i \in Items |-> readDone(g.items[i])],
            !.phase = "write", !.run = g.writes, !.writes = <<>>]

\* The WRITE phase calls the WRITE callback at the head of what is left.
gridWrite(g, outside) ==
  LET i == Head(g.run)
  IN gridPut(g, i, writePhase(gridItem(g, i), outside))

\* The WRITE phase is over and with it the frame.
gridFrameDone(g) ==
  [g EXCEPT !.items = [i \in Items |-> frameDone(g.items[i])],
            !.phase = "idle"]

\* show() or hide() of item i returned r: whether it began a transition
\* while the READ phase was running.
gridCall(g, i, r, op) ==
  [gridPut(g, i, r)
     EXCEPT !.calls = @ + 1, !.op = op,
            !.started = @ \/ (g.phase = "read" /\ "begin" \in r.ev)]

\* The grid settings vary in the windowing flag and the durations.
InitGrid ==
  /\ VisIdle /\ DebIdle /\ ticker = TickerInit /\ emitter = EmitterInit
  /\ \E st \in Settings, active \in [Items -> BOOLEAN] :
       /\ st.visibleStyles /\ st.hiddenStyles
       /\ grid = GridInit(st, active)

\* show() of an item, called between two frames or by another callback of
\* the frame that is running.
GridShow ==
  /\ grid.calls < MaxGridCalls
  /\ \E i \in Items, instant \in BOOLEAN :
       grid' = gridCall(grid, i, show(gridItem(grid, i), instant, NoCb),
                        "show")
  /\ UNCHANGED <<visVars, debVars, ticker, emitter>>

\* hide() of an item, called between two frames or by another callback of
\* the frame that is running.
GridHide ==
  /\ grid.calls < MaxGridCalls
  /\ \E i \in Items, instant \in BOOLEAN :
       grid' = gridCall(grid, i, hide(gridItem(grid, i), instant, NoCb),
                        "hide")
  /\ UNCHANGED <<visVars, debVars, ticker, emitter>>

\* The ticker begins a frame while something is registered: a callback of
\* an item, or a callback of another client that may still call the items.
GridFrameStart ==
  /\ grid.phase = "idle"
  /\ grid.reads # <<>> \/ grid.writes # <<>> \/ grid.calls < MaxGridCalls
  /\ grid' = [gridFrameStart(grid) EXCEPT !.op = "frameStart"]
  /\ UNCHANGED <<visVars, debVars, ticker, emitter>>

GridFrameRead ==
  /\ grid.phase = "read" /\ grid.run # <<>>
  /\ grid' = [gridRead(grid) EXCEPT !.op = "read"]
  /\ UNCHANGED <<visVars, debVars, ticker, emitter>>

GridFrameReadEnd ==
  /\ grid.phase = "read" /\ grid.run = <<>>
  /\ grid' = [gridReadDone(grid) EXCEPT !.op = "readEnd"]
  /\ UNCHANGED <<visVars, debVars, ticker, emitter>>

GridFrameWrite ==
  /\ grid.phase = "write" /\ grid.run # <<>>
  /\ \E outside \in BOOLEAN :
       grid' = [gridWrite(grid, outside) EXCEPT !.op = "write"]
  /\ UNCHANGED <<visVars, debVars, ticker, emitter>>

GridFrameEnd ==
  /\ grid.phase = "write" /\ grid.run = <<>>
  /\ grid' = [gridFrameDone(grid) EXCEPT !.op = "frameEnd"]
  /\ UNCHANGED <<visVars, debVars, ticker, emitter>>

\* The animation of an item reaches its end; the finish event is handled
\* outside the frames.
GridAnimationComplete ==
  /\ grid.phase = "idle"
  /\ \E i \in Items :
       /\ grid.items[i].animation \in {"show", "hide"}
       /\ grid' = [gridPut(grid, i, animationFinished(gridItem(grid, i)))
                     EXCEPT !.op = "complete"]
  /\ UNCHANGED <<visVars, debVars, ticker, emitter>>

NextGrid ==
  \/ GridShow \/ GridHide
  \/ GridFrameStart \/ GridFrameRead \/ GridFrameReadEnd
  \/ GridFrameWrite \/ GridFrameEnd
  \/ GridAnimationComplete

SpecGrid == InitGrid /\ [][NextGrid]_vars

GridWindowing == grid.items[1].settings.animationWindowing

\* C21: among the READ callbacks of the items of a grid that run in one
\* frame at most one refreshes the grid's measurements, and it is the first
\* that runs, provided no show() or hide() called during the READ phase of
\* that frame began a transition; without windowing none does.
C21_SharedRefresh ==
  /\ ~grid.started =>
       /\ Len(grid.refreshed) <= 1
       /\ grid.refreshed # <<>> => grid.refreshed[1] = grid.ran[1]
  /\ grid.refreshed # <<>> => GridWindowing
  /\ ~GridWindowing => grid.refreshed = <<>>

\* With windowing, a frame during which nothing was called ran the READ
\* callbacks of two items and only the first refreshed the measurements.
C21_Witness ==
  /\ GridWindowing /\ grid.op = "read" /\ ~grid.started
  /\ Len(grid.ran) = 2 /\ grid.refreshed = <<grid.ran[1]>>

\* show() of an item was called between the READ callbacks of two items and
\* set the flag again: both READ callbacks refreshed the measurements.
RefreshedTwice ==
  /\ GridWindowing /\ grid.started /\ grid.phase = "idle"
  /\ grid.ran = <<1, 2>> /\ grid.refreshed = <<1, 2>>
  /\ grid.reads = <<1>> /\ grid.writes = <<>>

====
